---- MODULE Spec2Model ----
(***************************************************************************)
(* Prompt Stash: the popup's synchronisation core (src/popup.js) over the  *)
(* Drive client (src/drive-api.js).                                        *)
(*                                                                         *)
(* A prompt is a record [id, v]: id is the Date.now() identity, v stands   *)
(* for the rest of the object (name, text, tags, createdAt, updatedAt).    *)
(* A JavaScript value that may flow through the collection variables is a  *)
(* tagged record [t, a]: t = "array" with a the sequence of prompts, or    *)
(* one of the non-array shapes JSON.parse can return.                      *)
(***************************************************************************)
EXTENDS Integers, Sequences, FiniteSets, Bags, TLC

\* ------------------------------------------------------------ bounds
MaxId == 3
MaxLen == 2
Contents == {"a", "b"}

\* ------------------------------------------------------------ JS values
Arr(s) == [t |-> "array", a |-> s]
JsNull == [t |-> "null", a |-> <<>>]
JsObject == [t |-> "object", a |-> <<>>]
JsString == [t |-> "string", a |-> <<>>]
TypeError == [t |-> "TypeError", a |-> <<>>]

\* `!v` of JavaScript: of the shapes above only null is falsy
\* (JsString stands for a non-empty string, JsObject for an object).
Falsy(v) == v.t = "null"
\* `v.length === 0`
LengthIsZero(v) == v.t = "array" /\ Len(v.a) = 0
\* `v.length > 0`: an object has no length (undefined > 0 is false)
LengthPositive(v) == (v.t = "array" /\ Len(v.a) > 0) \/ v.t = "string"

PromptSet == [id : 1..MaxId, v : Contents]
Colls == UNION {[1..n -> PromptSet] : n \in 0..MaxLen}

Range(s) == {s[i] : i \in DOMAIN s}
IdsOf(s) == {s[i].id : i \in DOMAIN s}
UniqueIds(s) == \A i, j \in DOMAIN s : s[i].id = s[j].id => i = j

\* ------------------------------------------------------------ mergePrompts
\* Insertion order of a Set / of a Map's keys: first occurrence of each key.
RECURSIVE Dedup(_)
Dedup(ks) ==
  IF ks = <<>> THEN <<>>
  ELSE LET front == Dedup(SubSeq(ks, 1, Len(ks) - 1))
           k == ks[Len(ks)]
       IN IF k \in Range(front) THEN front ELSE Append(front, k)

\* new Map(prompts.map(p => [p.id, p])): keys in insertion order
MapKeys(s) == Dedup([i \in DOMAIN s |-> s[i].id])
MapHas(s, id) == id \in IdsOf(s)
\* Map.get: a later entry with the same key replaced the earlier one
MapGet(s, id) == s[CHOOSE i \in DOMAIN s :
                     s[i].id = id /\ \A j \in DOMAIN s : s[j].id = id => j <= i]

\* new Set([...cachedMap.keys(), ...driveMap.keys()])
AllIdsDriveOnly(cached, drive) == MapKeys(drive)
AllIdsCachedOnly(cached, drive) == MapKeys(cached)
AllIds(cached, drive) == Dedup(MapKeys(cached) \o MapKeys(drive))

\* the body of the for loop: the drive version if it exists, else the cached one
MergedEntryLocalWins(cached, drive, id) ==
  IF MapHas(cached, id) THEN MapGet(cached, id) ELSE MapGet(drive, id)
MergedEntry(cached, drive, id) ==
  IF MapHas(drive, id) THEN MapGet(drive, id) ELSE MapGet(cached, id)

\* Array.prototype.sort((a, b) => b.id - a.id): stable, descending id
RECURSIVE InsertDesc(_, _)
InsertDesc(x, s) ==
  IF s = <<>> THEN <<x>>
  ELSE IF s[Len(s)].id >= x.id THEN Append(s, x)
  ELSE Append(InsertDesc(x, SubSeq(s, 1, Len(s) - 1)), s[Len(s)])

RECURSIVE SortDescBody(_)
SortDescBody(s) ==
  IF s = <<>> THEN <<>>
  ELSE InsertDesc(s[Len(s)], SortDescBody(SubSeq(s, 1, Len(s) - 1)))

SortNone(s) == s
SortAsc(s) == [i \in DOMAIN s |-> SortDescBody(s)[Len(s) + 1 - i]]
SortDesc(s) == SortDescBody(s)

MergeLoop(cached, drive) ==
  LET all == AllIds(cached, drive)
  IN SortDesc([i \in DOMAIN all |-> MergedEntry(cached, drive, all[i])])

mergePromptsAlwaysSorts(cachedPrompts, drivePrompts) ==
  IF Falsy(cachedPrompts) THEN drivePrompts
  ELSE IF Falsy(drivePrompts) THEN cachedPrompts
  ELSE IF cachedPrompts.t # "array" \/ drivePrompts.t # "array" THEN TypeError
  ELSE Arr(MergeLoop(cachedPrompts.a, drivePrompts.a))

\* mergePrompts(cachedPrompts, drivePrompts); TypeError when .map is called
\* on a value that is no array
mergePrompts(cachedPrompts, drivePrompts) ==
  IF Falsy(cachedPrompts) \/ LengthIsZero(cachedPrompts) THEN drivePrompts
  ELSE IF Falsy(drivePrompts) \/ LengthIsZero(drivePrompts) THEN cachedPrompts
  ELSE IF cachedPrompts.t # "array" \/ drivePrompts.t # "array" THEN TypeError
  ELSE Arr(MergeLoop(cachedPrompts.a, drivePrompts.a))

\* ------------------------------------------------------------ state
VARIABLES
  mLocal, mRemote, mOut, mOut2, mPhase, \* the reconciler's inputs and outputs
  now,            \* Date.now()
  currentPrompts, \* popup.js: let currentPrompts
  driveAPI,       \* popup.js: let driveAPI (TRUE once the instance exists)
  cache,          \* chrome.storage.local: prompts
  lastSync,       \* chrome.storage.local: lastSync
  remote,         \* the body of prompts.json on Drive
  authStatus,     \* showAuthStatus: loading | success | error
  toast,          \* the last showToast message
  rendered,       \* the cards renderList last drew
  tasks,          \* the async handlers in flight, each at an await
  timers,         \* active setInterval timers
  nextTick,       \* when the interval timer fires next
  closed,         \* the popup was torn down
  ops,            \* user clicks and timer ticks so far
  uncaught,       \* an exception escaped a handler or a storage callback
  folderId,       \* drive-api.js: this.folderId
  fileId,         \* drive-api.js: this.fileId
  dFolders,       \* Drive: how many "Prompt Stash" folders exist
  dFiles,         \* Drive: how many prompts.json files exist
  dBody,          \* Drive: the text of prompts.json
  dStack,         \* the DriveAPI methods in progress, innermost last
  dArg,           \* the argument of the savePrompts in progress
  dRet,           \* what the last DriveAPI call that ended gave its caller
  dCalls,         \* token and fetch calls made by the call in progress
  dErr,           \* the first failure met by the call in progress
  dOps,           \* DriveAPI calls made so far
  pendingInsert,  \* chrome.storage.local: pendingInsert
  inserted,       \* the texts insertTextIntoPage was run with in the active tab
  notification,   \* the last showNotification message of the service worker
  insertTask,     \* setPendingInsert at its await, with its argument
  command,        \* the onCommand listener at its await, with its text
  iOps            \* Insert clicks, commands and messages so far

mvars == <<mLocal, mRemote, mOut, mOut2, mPhase>>
pvars == <<now, currentPrompts, driveAPI, cache, lastSync, remote, authStatus,
           toast, rendered, tasks, timers, nextTick, closed, ops, uncaught>>
dvars == <<folderId, fileId, dFolders, dFiles, dBody, dStack, dArg, dRet,
           dCalls, dErr, dOps>>
ivars == <<pendingInsert, inserted, notification, insertTask, command, iOps>>
vars == <<mvars, pvars, dvars, ivars>>

\* The popup's variables as the reconciler's specification holds them.
PopupAtRest ==
  /\ now = 0 /\ currentPrompts = Arr(<<>>) /\ driveAPI = FALSE
  /\ cache = Arr(<<>>) /\ lastSync = 0 /\ remote = Arr(<<>>)
  /\ authStatus = "loading" /\ toast = "none" /\ rendered = Arr(<<>>)
  /\ tasks = EmptyBag /\ timers = 0 /\ nextTick = 0
  /\ closed = FALSE /\ ops = 0 /\ uncaught = FALSE

\* ------------------------------------------------------------ JSON text
\* The text of a document is a sequence of tokens. A prompt is written as
\* { id v }, an array as [ e , e ], and the other shapes as JSON writes them.
Tok(k, id, v) == [k |-> k, id |-> id, v |-> v]
LBracket == Tok("[", 0, "")
RBracket == Tok("]", 0, "")
LBrace == Tok("{", 0, "")
RBrace == Tok("}", 0, "")
Comma == Tok(",", 0, "")
NullTok == Tok("null", 0, "")
NumTok(n) == Tok("num", n, "")
StrTok(x) == Tok("str", 0, x)
SyntaxError == [t |-> "SyntaxError", a |-> <<>>]

RECURSIVE StringifyElemsNoComma(_)
StringifyElemsNoComma(s) ==
  IF s = <<>> THEN <<>>
  ELSE <<LBrace, NumTok(s[1].id), StrTok(s[1].v), RBrace>>
         \o StringifyElemsNoComma(Tail(s))

RECURSIVE StringifyElems(_)
StringifyElems(s) ==
  IF s = <<>> THEN <<>>
  ELSE <<LBrace, NumTok(s[1].id), StrTok(s[1].v), RBrace>>
         \o (IF Len(s) = 1 THEN <<>> ELSE <<Comma>> \o StringifyElems(Tail(s)))

\* JSON.stringify(prompts, null, 2)
JSONstringify(v) ==
  IF v.t = "array" THEN <<LBracket>> \o StringifyElems(v.a) \o <<RBracket>>
  ELSE IF v.t = "null" THEN <<NullTok>>
  ELSE IF v.t = "object" THEN <<LBrace, RBrace>>
  ELSE <<StrTok("s")>>

RECURSIVE WellFormedElems(_)
WellFormedElems(toks) ==
  /\ Len(toks) >= 4
  /\ toks[1] = LBrace /\ toks[2].k = "num" /\ toks[3].k = "str" /\ toks[4] = RBrace
  /\ \/ Len(toks) = 4
     \/ /\ Len(toks) >= 6
        /\ toks[5] = Comma
        /\ WellFormedElems(SubSeq(toks, 6, Len(toks)))

RECURSIVE ParseElems(_)
ParseElems(toks) ==
  IF toks = <<>> THEN <<>>
  ELSE <<[id |-> toks[2].id, v |-> toks[3].v]>>
         \o (IF Len(toks) = 4 THEN <<>> ELSE ParseElems(SubSeq(toks, 6, Len(toks))))

\* JSON.parse(content): the value, or SyntaxError where it throws
JSONparse(text) ==
  IF text = <<NullTok>> THEN JsNull
  ELSE IF text = <<LBrace, RBrace>> THEN JsObject
  ELSE IF Len(text) = 1 /\ text[1].k = "str" THEN JsString
  ELSE IF Len(text) >= 2 /\ text[1] = LBracket /\ text[Len(text)] = RBracket
  THEN LET inner == SubSeq(text, 2, Len(text) - 1)
       IN IF inner = <<>> \/ WellFormedElems(inner)
          THEN Arr(ParseElems(inner)) ELSE SyntaxError
  ELSE SyntaxError

\* ------------------------------------------------------------ the Drive client at rest
NoCalls == [token |-> 0, folderSearch |-> 0, folderCreate |-> 0,
            fileSearch |-> 0, fileCreate |-> 0, get |-> 0, patch |-> 0]
NoReturn == [kind |-> "none", val |-> Arr(<<>>), err |-> "none"]

\* The Drive client's variables as the popup's specification holds them.
DriveAtRest ==
  /\ folderId = "null" /\ fileId = "null"
  /\ dFolders = 0 /\ dFiles = 0 /\ dBody = <<>>
  /\ dStack = <<>> /\ dArg = Arr(<<>>) /\ dRet = NoReturn
  /\ dCalls = NoCalls /\ dErr = "none" /\ dOps = 0

\* The storage key, the page and the service worker before any Insert click,
\* command or message: the key was never written.
NoPending == [set |-> FALSE, text |-> ""]
Pending(text) == [set |-> TRUE, text |-> text]
Idle == [pc |-> "idle", text |-> ""]
InsertAtRest ==
  /\ pendingInsert = NoPending /\ inserted = <<>> /\ notification = "none"
  /\ insertTask = Idle /\ command = Idle /\ iOps = 0

\* ------------------------------------------------------------ the reconciler alone
MergeInit ==
  /\ mLocal \in {Arr(s) : s \in Colls}
  /\ mRemote \in {Arr(s) : s \in Colls}
  /\ mOut = Arr(<<>>)
  /\ mOut2 = Arr(<<>>)
  /\ mPhase = "input"
  /\ InsertAtRest
  /\ PopupAtRest
  /\ DriveAtRest

ApplyMerge ==
  /\ mPhase = "input"
  /\ mOut' = mergePrompts(mLocal, mRemote)
  /\ mPhase' = "merged"
  /\ UNCHANGED <<mLocal, mRemote, mOut2, pvars, dvars, ivars>>

ApplyMergeAgain ==
  /\ mPhase = "merged"
  /\ mOut2' = mergePrompts(mOut, mOut)
  /\ mPhase' = "remerged"
  /\ UNCHANGED <<mLocal, mRemote, mOut, pvars, dvars, ivars>>

MergeNext == ApplyMerge \/ ApplyMergeAgain

MergeSpec == MergeInit /\ [][MergeNext]_vars

\* ------------------------------------------------------------ the popup
SYNC_INTERVAL == 300000
StartTime == 10
MaxTasks == 2
MaxPrompts == 3
MaxMs == 1
MaxIntervals == 1
MaxOps == 2
\* what the user types into the form
NewContents == {"n"}

P(i, c) == [id |-> i, v |-> c]
NoPrompt == [id |-> 0, v |-> ""]
\* A handler suspended at an await, with its local variables: cached is
\* cachedPrompts of initializeApp, res the value its Drive call returned (or
\* the array it is about to write), arg the prompt of savePrompt or the id of
\* the delete, ls the lastSync the timer callback read. out is not a variable
\* of the code: while the handler resumes from getPrompts it records how that
\* call went, which getPrompts itself does not tell its caller.
NewTask(k, p, c, a, l) ==
  [kind |-> k, pc |-> p, cached |-> c, res |-> Arr(<<>>), arg |-> a, ls |-> l,
   out |-> "none"]

\* What an earlier session left in chrome.storage.local: newest first.
InitCaches == {<<>>, <<P(1, "a")>>, <<P(2, "a"), P(1, "a")>>}
\* The body of prompts.json when the popup opens: a collection, or what
\* another writer left there.
InitRemotes ==
  {Arr(<<>>), Arr(<<P(1, "a")>>), Arr(<<P(1, "b")>>), Arr(<<P(2, "a"), P(1, "a")>>),
   [t |-> "notjson", a |-> <<>>], JsObject, JsString, JsNull}

\* The handlers in flight are a bag of task records: t below is one of them.
InFlight == BagToSet(tasks)
CanStart == BagCardinality(tasks) < MaxTasks
Start(task) == tasks' = tasks (+) SetToBag({task})
Finish(t) == tasks' = tasks (-) SetToBag({t})
Goto(t, pc, res) ==
  tasks' = (tasks (-) SetToBag({t}))
             (+) SetToBag({[t EXCEPT !.pc = pc, !.res = res, !.out = "none"]})
At(t, kind, pc) == ~closed /\ t \in InFlight /\ t.kind = kind /\ t.pc = pc

\* JSON.stringify, as far as the comparisons of popup.js depend on it: the
\* shape and, for an array, the entries in order.
stringify(v) == <<v.t, [i \in DOMAIN v.a |-> <<v.a[i].id, v.a[i].v>>]>>

\* loadFromStorage: result.prompts if truthy, else []
loadFromStorage(stored) == IF Falsy(stored) THEN Arr(<<>>) ELSE stored

\* saveToStorage: chrome.storage.local.set is called at once with prompts
\* and Date.now(); the promise resolves in its callback.
saveToStorage(prompts) == cache' = prompts /\ lastSync' = now
\* the callback reads prompts.length and throws on null: the promise never
\* resolves
SaveHangs(prompts) == prompts.t = "null"

\* handleSearch with an empty search box: renderList(currentPrompts).
\* `prompts.length` throws on null, `prompts.map` on a string; an object has
\* no length and draws the empty state.
HandleSearchThrows(cur) == cur.t \in {"null", "string"}
Render(cur) == IF cur.t = "array" THEN cur ELSE Arr(<<>>)

\* DriveAPI.getPrompts as its caller sees it. Every failure (no token, a
\* failed lookup, a network error, a non-2xx status, a body JSON.parse
\* rejects) is caught and answered with [], like a 404 and an empty body.
GetOutcomes == {"ok", "authError", "transportError", "notFound"}
getPrompts(body, outcome) ==
  IF outcome # "ok" THEN Arr(<<>>)
  ELSE IF body.t \in {"empty", "notjson"} THEN Arr(<<>>)
  ELSE body

\* How a getPrompts call went: a credential, transport or decode failure, or
\* ok (a 404 and an empty body are an empty collection).
FetchResult(body, outcome) ==
  IF outcome = "authError" THEN "credential"
  ELSE IF outcome = "transportError" THEN "transport"
  ELSE IF outcome = "ok" /\ body.t # "array" THEN "decode"
  ELSE "ok"

\* DriveAPI.savePrompts: PATCH of JSON.stringify(prompts), or a throw
PutOutcomes == {"ok", "authError", "transportError"}

\* popup.js at the moment bindUI has run: initializeApp is suspended at
\* `await loadFromStorage()`, whose storage read was issued already.
Init ==
  /\ mLocal = Arr(<<>>) /\ mRemote = Arr(<<>>) /\ mOut = Arr(<<>>)
  /\ mOut2 = Arr(<<>>) /\ mPhase = "popup"
  /\ InsertAtRest
  /\ now = StartTime
  /\ currentPrompts = Arr(<<>>)
  /\ driveAPI = FALSE
  /\ cache \in {Arr(s) : s \in InitCaches}
  /\ lastSync = IF cache.a = <<>> THEN 0 ELSE 1
  /\ remote \in InitRemotes
  /\ authStatus = "loading"
  /\ toast = "none"
  /\ rendered = Arr(<<>>)
  /\ tasks = SetToBag({NewTask("init", "loadCache", loadFromStorage(cache), NoPrompt, 0)})
  /\ timers = 0 /\ nextTick = 0
  /\ closed = FALSE /\ ops = 0 /\ uncaught = FALSE
  /\ DriveAtRest

\* ---- the Drive client's requests, as the remote document sees them
GetRequest(t, outcome) ==
  /\ ~closed /\ t \in InFlight /\ t.pc = "get"
  /\ tasks' = (tasks (-) SetToBag({t}))
                 (+) SetToBag({[t EXCEPT !.pc = "got",
                                         !.res = getPrompts(remote, outcome),
                                         !.out = FetchResult(remote, outcome)]})
  /\ UNCHANGED <<mvars, dvars, ivars, now, currentPrompts, driveAPI, cache, lastSync, remote,
                 authStatus, toast, rendered, timers, nextTick, closed, ops, uncaught>>

PutRequest(t, outcome) ==
  /\ ~closed /\ t \in InFlight /\ t.pc = "put"
  /\ IF outcome = "ok"
     THEN remote' = t.res /\ Goto(t, "putOk", t.res)
     ELSE remote' = remote /\ Goto(t, "putFail", t.res)
  /\ UNCHANGED <<mvars, dvars, ivars, now, currentPrompts, driveAPI, cache, lastSync,
                 authStatus, toast, rendered, timers, nextTick, closed, ops, uncaught>>

\* ---- initializeApp / initializeDriveAPI
\* the catch of initializeDriveAPI; its `currentPrompts.length` throws on
\* null, and so does the same test in the catch of initializeApp
InitCatch(t) ==
  /\ authStatus' = IF Falsy(currentPrompts) THEN authStatus
                   ELSE IF LengthIsZero(currentPrompts) THEN "error" ELSE "success"
  /\ toast' = IF Falsy(currentPrompts) THEN toast
              ELSE IF LengthIsZero(currentPrompts) THEN "connectFailed" ELSE "usingCached"
  /\ uncaught' = (uncaught \/ Falsy(currentPrompts))
  /\ Finish(t)
  /\ UNCHANGED <<timers, nextTick>>

\* showAuthStatus('success'); setupBackgroundSync()
InitFinish(t) ==
  /\ authStatus' = "success"
  /\ timers' = timers + 1
  /\ nextTick' = now + SYNC_INTERVAL
  /\ Finish(t)
  /\ UNCHANGED <<toast, uncaught>>

InitCacheLoadedNoRender(t) ==
  /\ At(t, "init", "loadCache")
  /\ LET cached == t.cached
         loaded == ~Falsy(cached) /\ LengthPositive(cached)
     IN /\ currentPrompts' = IF loaded THEN cached ELSE currentPrompts
        /\ IF loaded /\ HandleSearchThrows(cached)
           THEN \* renderList throws into the catch of initializeApp
                /\ authStatus' = "success" /\ toast' = "usingCached"
                /\ Finish(t)
                /\ UNCHANGED <<rendered, driveAPI>>
           ELSE /\ authStatus' = IF loaded THEN "success" ELSE authStatus
                /\ rendered' = rendered
                /\ driveAPI' = TRUE
                /\ Goto(t, "get", Arr(<<>>))
                /\ UNCHANGED toast
  /\ UNCHANGED <<mvars, dvars, ivars, now, cache, lastSync, remote, timers, nextTick, closed, ops, uncaught>>

InitCacheLoaded(t) ==
  /\ At(t, "init", "loadCache")
  /\ LET cached == t.cached
         loaded == ~Falsy(cached) /\ LengthPositive(cached)
     IN /\ currentPrompts' = IF loaded THEN cached ELSE currentPrompts
        /\ IF loaded /\ HandleSearchThrows(cached)
           THEN \* renderList throws into the catch of initializeApp
                /\ authStatus' = "success" /\ toast' = "usingCached"
                /\ Finish(t)
                /\ UNCHANGED <<rendered, driveAPI>>
           ELSE /\ authStatus' = IF loaded THEN "success" ELSE authStatus
                /\ rendered' = IF loaded THEN Render(cached) ELSE rendered
                /\ driveAPI' = TRUE
                /\ Goto(t, "get", Arr(<<>>))
                /\ UNCHANGED toast
  /\ UNCHANGED <<mvars, dvars, ivars, now, cache, lastSync, remote, timers, nextTick, closed, ops, uncaught>>

InitAfterGetSkipsCache(t) ==
  /\ At(t, "init", "got")
  /\ LET drivePrompts == t.res
         mergedPrompts == mergePrompts(currentPrompts, drivePrompts)
     IN IF ~Falsy(drivePrompts) /\ LengthPositive(drivePrompts)
        THEN IF mergedPrompts = TypeError
             THEN InitCatch(t) /\ UNCHANGED <<currentPrompts, cache, lastSync>>
             ELSE IF stringify(mergedPrompts) # stringify(currentPrompts)
             THEN /\ currentPrompts' = mergedPrompts
                  /\ UNCHANGED <<cache, lastSync>>
                  /\ Goto(t, "saving", t.res)
                  /\ UNCHANGED <<authStatus, toast, timers, nextTick, uncaught>>
             ELSE InitFinish(t) /\ UNCHANGED <<currentPrompts, cache, lastSync>>
        ELSE InitFinish(t) /\ UNCHANGED <<currentPrompts, cache, lastSync>>
  /\ UNCHANGED <<mvars, dvars, ivars, now, driveAPI, remote, rendered, closed, ops>>

InitAfterGet(t) ==
  /\ At(t, "init", "got")
  /\ LET drivePrompts == t.res
         mergedPrompts == mergePrompts(currentPrompts, drivePrompts)
     IN IF ~Falsy(drivePrompts) /\ LengthPositive(drivePrompts)
        THEN IF mergedPrompts = TypeError
             THEN InitCatch(t) /\ UNCHANGED <<currentPrompts, cache, lastSync>>
             ELSE IF stringify(mergedPrompts) # stringify(currentPrompts)
             THEN /\ currentPrompts' = mergedPrompts
                  /\ saveToStorage(mergedPrompts)
                  /\ Goto(t, "saving", t.res)
                  /\ UNCHANGED <<authStatus, toast, timers, nextTick, uncaught>>
             ELSE InitFinish(t) /\ UNCHANGED <<currentPrompts, cache, lastSync>>
        ELSE InitFinish(t) /\ UNCHANGED <<currentPrompts, cache, lastSync>>
  /\ UNCHANGED <<mvars, dvars, ivars, now, driveAPI, remote, rendered, closed, ops>>

InitAfterSave(t) ==
  /\ At(t, "init", "saving")
  /\ IF HandleSearchThrows(currentPrompts)
     THEN InitCatch(t) /\ UNCHANGED rendered
     ELSE InitFinish(t) /\ rendered' = Render(currentPrompts)
  /\ UNCHANGED <<mvars, dvars, ivars, now, currentPrompts, driveAPI, cache, lastSync, remote, closed, ops>>

\* ---- refreshPrompts / loadPrompts
Refresh ==
  /\ ~closed /\ ops < MaxOps /\ ops' = ops + 1
  /\ IF ~driveAPI
     THEN /\ toast' = "driveUnavailable"
          /\ UNCHANGED <<authStatus, tasks>>
     ELSE /\ CanStart
          /\ authStatus' = "loading"
          /\ Start(NewTask("load", "get", Arr(<<>>), NoPrompt, 0))
          /\ UNCHANGED toast
  /\ UNCHANGED <<mvars, dvars, ivars, now, currentPrompts, driveAPI, cache, lastSync, remote,
                 rendered, timers, nextTick, closed, uncaught>>

LoadCatch(t) ==
  /\ authStatus' = "error"
  /\ toast' = "loadFailed"
  /\ Finish(t)

LoadAfterGetAlwaysSaves(t) ==
  /\ At(t, "load", "got")
  /\ LET drivePrompts == t.res
         mergedPrompts == mergePrompts(currentPrompts, drivePrompts)
     IN IF mergedPrompts = TypeError
        THEN LoadCatch(t) /\ UNCHANGED <<currentPrompts, cache, lastSync, uncaught>>
        ELSE IF stringify(mergedPrompts) # stringify(currentPrompts)
        THEN /\ currentPrompts' = mergedPrompts
             /\ saveToStorage(mergedPrompts)
             /\ IF SaveHangs(mergedPrompts)
                THEN uncaught' = TRUE /\ Finish(t)
                ELSE uncaught' = uncaught /\ Goto(t, "saving", t.res)
             /\ UNCHANGED <<authStatus, toast>>
        ELSE /\ toast' = "upToDate"
             /\ authStatus' = "success"
             /\ Finish(t)
             /\ saveToStorage(currentPrompts)
             /\ UNCHANGED <<currentPrompts, uncaught>>
  /\ UNCHANGED <<mvars, dvars, ivars, now, driveAPI, remote, rendered, timers, nextTick, closed, ops>>

LoadAfterGet(t) ==
  /\ At(t, "load", "got")
  /\ LET drivePrompts == t.res
         mergedPrompts == mergePrompts(currentPrompts, drivePrompts)
     IN IF mergedPrompts = TypeError
        THEN LoadCatch(t) /\ UNCHANGED <<currentPrompts, cache, lastSync, uncaught>>
        ELSE IF stringify(mergedPrompts) # stringify(currentPrompts)
        THEN /\ currentPrompts' = mergedPrompts
             /\ saveToStorage(mergedPrompts)
             /\ IF SaveHangs(mergedPrompts)
                THEN uncaught' = TRUE /\ Finish(t)
                ELSE uncaught' = uncaught /\ Goto(t, "saving", t.res)
             /\ UNCHANGED <<authStatus, toast>>
        ELSE /\ toast' = "upToDate"
             /\ authStatus' = "success"
             /\ Finish(t)
             /\ UNCHANGED <<currentPrompts, cache, lastSync, uncaught>>
  /\ UNCHANGED <<mvars, dvars, ivars, now, driveAPI, remote, rendered, timers, nextTick, closed, ops>>

LoadAfterSave(t) ==
  /\ At(t, "load", "saving")
  /\ IF HandleSearchThrows(currentPrompts)
     THEN LoadCatch(t) /\ UNCHANGED rendered
     ELSE /\ rendered' = Render(currentPrompts)
          /\ toast' = "refreshed"
          /\ authStatus' = "success"
          /\ Finish(t)
  /\ UNCHANGED <<mvars, dvars, ivars, now, currentPrompts, driveAPI, cache, lastSync, remote,
                 timers, nextTick, closed, ops, uncaught>>

\* ---- setupBackgroundSync: the setInterval callback
TickFire ==
  /\ ~closed /\ ops < MaxOps /\ ops' = ops + 1
  /\ timers > 0 /\ now >= nextTick
  /\ nextTick' = nextTick + SYNC_INTERVAL
  /\ IF ~driveAPI
     THEN UNCHANGED tasks
     ELSE CanStart /\ Start(NewTask("tick", "getLastSync", Arr(<<>>), NoPrompt, lastSync))
  /\ UNCHANGED <<mvars, dvars, ivars, now, currentPrompts, driveAPI, cache, lastSync, remote,
                 authStatus, toast, rendered, timers, closed, uncaught>>

TickAfterLastSyncAlways(t) ==
  /\ At(t, "tick", "getLastSync")
  /\ LET timeSinceLastSync == now - t.ls
     IN IF timeSinceLastSync >= 0
        THEN Goto(t, "get", Arr(<<>>))
        ELSE Finish(t)
  /\ UNCHANGED <<mvars, dvars, ivars, now, currentPrompts, driveAPI, cache, lastSync, remote,
                 authStatus, toast, rendered, timers, nextTick, closed, ops, uncaught>>

TickAfterLastSync(t) ==
  /\ At(t, "tick", "getLastSync")
  /\ LET timeSinceLastSync == now - t.ls
     IN IF timeSinceLastSync > SYNC_INTERVAL
        THEN Goto(t, "get", Arr(<<>>))
        ELSE Finish(t)
  /\ UNCHANGED <<mvars, dvars, ivars, now, currentPrompts, driveAPI, cache, lastSync, remote,
                 authStatus, toast, rendered, timers, nextTick, closed, ops, uncaught>>

TickAfterGet(t) ==
  /\ At(t, "tick", "got")
  /\ LET drivePrompts == t.res
         mergedPrompts == mergePrompts(currentPrompts, drivePrompts)
     IN IF ~Falsy(drivePrompts) /\ LengthPositive(drivePrompts)
           /\ mergedPrompts # TypeError
           /\ stringify(mergedPrompts) # stringify(currentPrompts)
        THEN /\ currentPrompts' = mergedPrompts
             /\ saveToStorage(mergedPrompts)
             /\ Goto(t, "saving", t.res)
        ELSE Finish(t) /\ UNCHANGED <<currentPrompts, cache, lastSync>>
  /\ UNCHANGED <<mvars, dvars, ivars, now, driveAPI, remote, authStatus, toast, rendered,
                 timers, nextTick, closed, ops, uncaught>>

TickAfterSave(t) ==
  /\ At(t, "tick", "saving")
  /\ rendered' = IF HandleSearchThrows(currentPrompts) THEN rendered
                 ELSE Render(currentPrompts)
  /\ Finish(t)
  /\ UNCHANGED <<mvars, dvars, ivars, now, currentPrompts, driveAPI, cache, lastSync, remote,
                 authStatus, toast, timers, nextTick, closed, ops, uncaught>>

\* ---- savePrompt, for a name and a text that pass validatePrompt
Create(v) ==
  /\ ~closed /\ ops < MaxOps /\ ops' = ops + 1
  /\ LET newPrompt == [id |-> now, v |-> v]
     IN IF currentPrompts.t # "array"
        THEN \* unshift is no function: the outer catch
             /\ toast' = "saveFailed"
             /\ UNCHANGED <<currentPrompts, cache, lastSync, tasks>>
        ELSE /\ Len(currentPrompts.a) < MaxPrompts
             /\ CanStart
             /\ currentPrompts' = Arr(<<newPrompt>> \o currentPrompts.a)
             /\ saveToStorage(currentPrompts')
             /\ Start(NewTask("save", "saving", Arr(<<>>), newPrompt, 0))
             /\ UNCHANGED toast
  /\ UNCHANGED <<mvars, dvars, ivars, now, driveAPI, remote, authStatus, rendered, timers,
                 nextTick, closed, uncaught>>

SaveAfterStore(t) ==
  /\ At(t, "save", "saving")
  /\ IF HandleSearchThrows(currentPrompts)
     THEN toast' = "saveFailed" /\ Finish(t) /\ UNCHANGED rendered
     ELSE /\ rendered' = Render(currentPrompts)
          /\ IF driveAPI
             THEN Goto(t, "get", Arr(<<>>)) /\ UNCHANGED toast
             ELSE toast' = "savedLocallyNoDrive" /\ Finish(t)
  /\ UNCHANGED <<mvars, dvars, ivars, now, currentPrompts, driveAPI, cache, lastSync, remote,
                 authStatus, timers, nextTick, closed, ops, uncaught>>

\* DriveAPI.addPrompt after its getPrompts: prompts.unshift(prompt), then
\* savePrompts(prompts)
SaveAfterGet(t) ==
  /\ At(t, "save", "got")
  /\ IF t.res.t # "array"
     THEN toast' = "savedLocallySyncFailed" /\ Finish(t)
     ELSE Goto(t, "put", Arr(<<t.arg>> \o t.res.a)) /\ UNCHANGED toast
  /\ UNCHANGED <<mvars, dvars, ivars, now, currentPrompts, driveAPI, cache, lastSync, remote,
                 authStatus, rendered, timers, nextTick, closed, ops, uncaught>>

SaveAfterPutRollsBack(t) ==
  /\ ~closed /\ t \in InFlight /\ t.kind = "save" /\ t.pc \in {"putOk", "putFail"}
  /\ toast' = IF t.pc = "putOk" THEN "savedToDrive" ELSE "savedLocallySyncFailed"
  /\ currentPrompts' =
       IF t.pc = "putFail" /\ currentPrompts.t = "array"
       THEN Arr(SelectSeq(currentPrompts.a, LAMBDA p : p # t.arg))
       ELSE currentPrompts
  /\ cache' = currentPrompts'
  /\ Finish(t)
  /\ UNCHANGED <<mvars, dvars, ivars, now, driveAPI, lastSync, remote,
                 authStatus, rendered, timers, nextTick, closed, ops, uncaught>>

SaveAfterPut(t) ==
  /\ ~closed /\ t \in InFlight /\ t.kind = "save" /\ t.pc \in {"putOk", "putFail"}
  /\ toast' = IF t.pc = "putOk" THEN "savedToDrive" ELSE "savedLocallySyncFailed"
  /\ Finish(t)
  /\ UNCHANGED <<mvars, dvars, ivars, now, currentPrompts, driveAPI, cache, lastSync, remote,
                 authStatus, rendered, timers, nextTick, closed, ops, uncaught>>

\* ---- listClickHandler: a click on Delete of a drawn card, confirmed.
\* The id is Number(card.dataset.id) of a card drawn from `data-id="${p.id}"`:
\* for the integer ids of Date.now() that is the id itself.
ClickDeleteSkipsCache(id) ==
  /\ ~closed /\ ops < MaxOps /\ ops' = ops + 1
  /\ id \in IdsOf(rendered.a)
  /\ IF currentPrompts.t # "array"
     THEN \* currentPrompts.find is no function, outside any try
          /\ uncaught' = TRUE
          /\ UNCHANGED <<currentPrompts, cache, lastSync, tasks>>
     ELSE /\ id \in IdsOf(currentPrompts.a)
          /\ CanStart
          /\ currentPrompts' = Arr(SelectSeq(currentPrompts.a, LAMBDA p : p.id # id))
          /\ UNCHANGED <<cache, lastSync>>
          /\ Start(NewTask("del", "saving", Arr(<<>>), [id |-> id, v |-> ""], 0))
          /\ UNCHANGED uncaught
  /\ UNCHANGED <<mvars, dvars, ivars, now, driveAPI, remote, authStatus, toast, rendered,
                 timers, nextTick, closed>>

ClickDelete(id) ==
  /\ ~closed /\ ops < MaxOps /\ ops' = ops + 1
  /\ id \in IdsOf(rendered.a)
  /\ IF currentPrompts.t # "array"
     THEN \* currentPrompts.find is no function, outside any try
          /\ uncaught' = TRUE
          /\ UNCHANGED <<currentPrompts, cache, lastSync, tasks>>
     ELSE /\ id \in IdsOf(currentPrompts.a)
          /\ CanStart
          /\ currentPrompts' = Arr(SelectSeq(currentPrompts.a, LAMBDA p : p.id # id))
          /\ saveToStorage(currentPrompts')
          /\ Start(NewTask("del", "saving", Arr(<<>>), [id |-> id, v |-> ""], 0))
          /\ UNCHANGED uncaught
  /\ UNCHANGED <<mvars, dvars, ivars, now, driveAPI, remote, authStatus, toast, rendered,
                 timers, nextTick, closed>>

DelAfterStore(t) ==
  /\ At(t, "del", "saving")
  /\ IF HandleSearchThrows(currentPrompts)
     THEN toast' = "deleteFailed" /\ Finish(t) /\ UNCHANGED rendered
     ELSE /\ rendered' = Render(currentPrompts)
          /\ IF driveAPI
             THEN Goto(t, "get", Arr(<<>>)) /\ UNCHANGED toast
             ELSE toast' = "deletedLocallyNoDrive" /\ Finish(t)
  /\ UNCHANGED <<mvars, dvars, ivars, now, currentPrompts, driveAPI, cache, lastSync, remote,
                 authStatus, timers, nextTick, closed, ops, uncaught>>

\* DriveAPI.deletePrompt after its getPrompts: prompts.filter, then savePrompts
DelAfterGet(t) ==
  /\ At(t, "del", "got")
  /\ IF t.res.t # "array"
     THEN toast' = "deletedLocallySyncFailed" /\ Finish(t)
     ELSE /\ Goto(t, "put", Arr(SelectSeq(t.res.a,
                                          LAMBDA p : p.id # t.arg.id)))
          /\ UNCHANGED toast
  /\ UNCHANGED <<mvars, dvars, ivars, now, currentPrompts, driveAPI, cache, lastSync, remote,
                 authStatus, rendered, timers, nextTick, closed, ops, uncaught>>

DelAfterPut(t) ==
  /\ ~closed /\ t \in InFlight /\ t.kind = "del" /\ t.pc \in {"putOk", "putFail"}
  /\ toast' = IF t.pc = "putOk" THEN "deletedFromDrive"
              ELSE "deletedLocallySyncFailed"
  /\ Finish(t)
  /\ UNCHANGED <<mvars, dvars, ivars, now, currentPrompts, driveAPI, cache, lastSync, remote,
                 authStatus, rendered, timers, nextTick, closed, ops, uncaught>>

\* ---- the environment: the clock, and the popup closing
Advance(d) ==
  /\ ~closed
  /\ \/ d = 1 /\ (now - StartTime) % SYNC_INTERVAL < MaxMs
     \/ d = SYNC_INTERVAL /\ (now - StartTime) \div SYNC_INTERVAL < MaxIntervals
  /\ now' = now + d
  /\ UNCHANGED <<mvars, dvars, ivars, currentPrompts, driveAPI, cache, lastSync, remote,
                 authStatus, toast, rendered, tasks, timers, nextTick, closed, ops, uncaught>>

UnloadKeepsTimer ==
  /\ ~closed
  /\ closed' = TRUE
  /\ UNCHANGED <<timers, nextTick>>
  /\ tasks' = EmptyBag
  /\ currentPrompts' = Arr(<<>>) /\ rendered' = Arr(<<>>) /\ driveAPI' = FALSE
  /\ authStatus' = "closed" /\ toast' = "none"
  /\ UNCHANGED <<mvars, dvars, ivars, now, cache, lastSync, remote, ops, uncaught>>

\* beforeunload: clearInterval. The page goes away with its variables and
\* its pending handlers; chrome.storage and the Drive document stay.
Unload ==
  /\ ~closed
  /\ closed' = TRUE
  /\ timers' = 0 /\ nextTick' = 0
  /\ tasks' = EmptyBag
  /\ currentPrompts' = Arr(<<>>) /\ rendered' = Arr(<<>>) /\ driveAPI' = FALSE
  /\ authStatus' = "closed" /\ toast' = "none"
  /\ UNCHANGED <<mvars, dvars, ivars, now, cache, lastSync, remote, ops, uncaught>>

Next ==
  \/ \E t \in InFlight : \E outcome \in GetOutcomes : GetRequest(t, outcome)
  \/ \E t \in InFlight : \E outcome \in PutOutcomes : PutRequest(t, outcome)
  \/ \E t \in InFlight : InitCacheLoaded(t)
  \/ \E t \in InFlight : InitAfterGet(t)
  \/ \E t \in InFlight : InitAfterSave(t)
  \/ Refresh
  \/ \E t \in InFlight : LoadAfterGet(t)
  \/ \E t \in InFlight : LoadAfterSave(t)
  \/ TickFire
  \/ \E t \in InFlight : TickAfterLastSync(t)
  \/ \E t \in InFlight : TickAfterGet(t)
  \/ \E t \in InFlight : TickAfterSave(t)
  \/ \E v \in NewContents : Create(v)
  \/ \E t \in InFlight : SaveAfterStore(t)
  \/ \E t \in InFlight : SaveAfterGet(t)
  \/ \E t \in InFlight : SaveAfterPut(t)
  \/ \E id \in IdsOf(rendered.a) : ClickDelete(id)
  \/ \E t \in InFlight : DelAfterStore(t)
  \/ \E t \in InFlight : DelAfterGet(t)
  \/ \E t \in InFlight : DelAfterPut(t)
  \/ \E d \in {1, SYNC_INTERVAL} : Advance(d)
  \/ Unload

Spec == Init /\ [][Next]_vars

\* The popup with a remote document that is a collection and a user who
\* never clicks Delete: startup, refresh, periodic sync and create.
NoDeleteInit == Init /\ remote.t = "array"

NoDeleteNext ==
  \/ \E t \in InFlight : \E outcome \in GetOutcomes : GetRequest(t, outcome)
  \/ \E t \in InFlight : \E outcome \in PutOutcomes : PutRequest(t, outcome)
  \/ \E t \in InFlight : InitCacheLoaded(t)
  \/ \E t \in InFlight : InitAfterGet(t)
  \/ \E t \in InFlight : InitAfterSave(t)
  \/ Refresh
  \/ \E t \in InFlight : LoadAfterGet(t)
  \/ \E t \in InFlight : LoadAfterSave(t)
  \/ TickFire
  \/ \E t \in InFlight : TickAfterLastSync(t)
  \/ \E t \in InFlight : TickAfterGet(t)
  \/ \E t \in InFlight : TickAfterSave(t)
  \/ \E v \in NewContents : Create(v)
  \/ \E t \in InFlight : SaveAfterStore(t)
  \/ \E t \in InFlight : SaveAfterGet(t)
  \/ \E t \in InFlight : SaveAfterPut(t)
  \/ \E d \in {1, SYNC_INTERVAL} : Advance(d)
  \/ Unload

NoDeleteSpec == NoDeleteInit /\ [][NoDeleteNext]_vars

\* ------------------------------------------------------------ the Drive client
\* drive-api.js, one call of getPrompts or savePrompts at a time, each
\* await a step. dStack holds the methods in progress; a throw leaves every
\* method up to the try/catch of getPrompts or savePrompts.
MaxDepth == 5
MaxDriveOps == 2
TokenOutcomes == {"ok", "fail"}
FetchOutcomes == {"ok", "http", "network"}
ContentOutcomes == {"ok", "notFound", "http", "network"}
SaveArgs == {Arr(<<>>), Arr(<<P(1, "a")>>), Arr(<<P(2, "b"), P(1, "a")>>),
             Arr(<<P(1, "a"), P(1, "b")>>)}
\* what prompts.json may hold when the client meets it: a collection, no
\* text at all, a text cut short, or another JSON value
InitBodies ==
  {JSONstringify(v) : v \in {Arr(<<>>), Arr(<<P(1, "a")>>), Arr(<<P(2, "a"), P(1, "a")>>),
                             JsObject, JsString, JsNull}}
    \cup {<<>>, <<LBracket, LBrace>>}

Frame(fn) == [fn |-> fn, pc |-> "token"]
Top == dStack[Len(dStack)]
Running(fn, pc) == dStack # <<>> /\ Top.fn = fn /\ Top.pc = pc
SetTop(pc) == [dStack EXCEPT ![Len(dStack)].pc = pc]
Pop == SubSeq(dStack, 1, Len(dStack) - 1)
Count(k) == dCalls' = [dCalls EXCEPT ![k] = @ + 1]
\* where a method goes on after `await this.getAuthToken()`
AfterToken(fn) ==
  IF fn = "findOrCreateFile" THEN "folder"
  ELSE IF fn = "findOrCreateFolder" THEN "search"
  ELSE "file"

\* return to the caller of getPrompts / savePrompts
Deliver(kind, val) ==
  /\ dRet' = [kind |-> kind, val |-> val, err |-> "none"]
  /\ dStack' = <<>>
  /\ dErr' = dErr
\* a throw: the catch of getPrompts logs it and returns [], the catch of
\* savePrompts logs it and throws it again
Raise(err) ==
  /\ dRet' = IF dStack[1].fn = "getPrompts"
             THEN [kind |-> "value", val |-> Arr(<<>>), err |-> "none"]
             ELSE [kind |-> "throw", val |-> Arr(<<>>), err |-> err]
  /\ dStack' = <<>>
  /\ dErr' = err

DriveInit ==
  /\ mLocal = Arr(<<>>) /\ mRemote = Arr(<<>>) /\ mOut = Arr(<<>>)
  /\ mOut2 = Arr(<<>>) /\ mPhase = "drive"
  /\ InsertAtRest
  /\ PopupAtRest
  /\ folderId = "null" /\ fileId = "null"
  /\ dFolders \in {0, 1}
  /\ dFiles \in (IF dFolders = 0 THEN {0} ELSE {0, 1})
  /\ dBody \in (IF dFiles = 0 THEN {<<>>} ELSE InitBodies)
  /\ dStack = <<>> /\ dArg = Arr(<<>>) /\ dRet = NoReturn
  /\ dCalls = NoCalls /\ dErr = "none" /\ dOps = 0

CallGetPrompts ==
  /\ dStack = <<>> /\ dOps < MaxDriveOps
  /\ dOps' = dOps + 1
  /\ dStack' = <<Frame("getPrompts")>>
  /\ dCalls' = NoCalls /\ dErr' = "none"
  /\ UNCHANGED <<mvars, pvars, ivars, folderId, fileId, dFolders, dFiles, dBody, dArg, dRet>>

CallSavePrompts(prompts) ==
  /\ dStack = <<>> /\ dOps < MaxDriveOps
  /\ dOps' = dOps + 1
  /\ dStack' = <<Frame("savePrompts")>>
  /\ dArg' = prompts
  /\ dCalls' = NoCalls /\ dErr' = "none"
  /\ UNCHANGED <<mvars, pvars, ivars, folderId, fileId, dFolders, dFiles, dBody, dRet>>

GetAuthToken(outcome) ==
  /\ dStack # <<>> /\ Top.pc = "token"
  /\ Count("token")
  /\ IF outcome = "ok"
     THEN dStack' = SetTop(AfterToken(Top.fn)) /\ UNCHANGED <<dRet, dErr>>
     ELSE Raise("auth")
  /\ UNCHANGED <<mvars, pvars, ivars, folderId, fileId, dFolders, dFiles, dBody, dArg, dOps>>

\* `await this.findOrCreateFile()` in getPrompts, savePrompts, updateFileContent
CallFindOrCreateFile ==
  /\ dStack # <<>> /\ Top.pc = "file" /\ Len(dStack) < MaxDepth
  /\ dStack' = Append(SetTop("request"), Frame("findOrCreateFile"))
  /\ UNCHANGED <<mvars, pvars, ivars, folderId, fileId, dFolders, dFiles, dBody, dArg,
                 dRet, dCalls, dErr, dOps>>

CallFindOrCreateFolder ==
  /\ Running("findOrCreateFile", "folder") /\ Len(dStack) < MaxDepth
  /\ dStack' = Append(SetTop("search"), Frame("findOrCreateFolder"))
  /\ UNCHANGED <<mvars, pvars, ivars, folderId, fileId, dFolders, dFiles, dBody, dArg,
                 dRet, dCalls, dErr, dOps>>

\* findOrCreateFolder: the search. The status is not looked at: an error
\* response has no `files` and is taken as no match.
FolderSearch(outcome) ==
  /\ Running("findOrCreateFolder", "search")
  /\ Count("folderSearch")
  /\ IF outcome = "network"
     THEN Raise("network") /\ UNCHANGED folderId
     ELSE IF outcome = "ok" /\ dFolders > 0
     THEN folderId' = "id" /\ dStack' = Pop /\ UNCHANGED <<dRet, dErr>>
     ELSE dStack' = SetTop("create") /\ UNCHANGED <<folderId, dRet, dErr>>
  /\ UNCHANGED <<mvars, pvars, ivars, fileId, dFolders, dFiles, dBody, dArg, dOps>>

\* findOrCreateFolder: the create. The status is not looked at either: an
\* error response has no `id`.
FolderCreate(outcome) ==
  /\ Running("findOrCreateFolder", "create")
  /\ Count("folderCreate")
  /\ IF outcome = "network"
     THEN Raise("network") /\ UNCHANGED <<folderId, dFolders>>
     ELSE /\ folderId' = IF outcome = "ok" THEN "id" ELSE "undefined"
          /\ dFolders' = IF outcome = "ok" THEN dFolders + 1 ELSE dFolders
          /\ dStack' = Pop
          /\ UNCHANGED <<dRet, dErr>>
  /\ UNCHANGED <<mvars, pvars, ivars, fileId, dFiles, dBody, dArg, dOps>>

FileSearch(outcome) ==
  /\ Running("findOrCreateFile", "search")
  /\ Count("fileSearch")
  /\ IF outcome = "network"
     THEN Raise("network") /\ UNCHANGED fileId
     ELSE IF outcome = "ok" /\ dFiles > 0 /\ folderId = "id"
     THEN fileId' = "id" /\ dStack' = Pop /\ UNCHANGED <<dRet, dErr>>
     ELSE dStack' = SetTop("create") /\ UNCHANGED <<fileId, dRet, dErr>>
  /\ UNCHANGED <<mvars, pvars, ivars, folderId, dFolders, dFiles, dBody, dArg, dOps>>

\* findOrCreateFile: the create, whose status is looked at
FileCreate(outcome) ==
  /\ Running("findOrCreateFile", "create")
  /\ Count("fileCreate")
  /\ IF outcome # "ok"
     THEN Raise(outcome) /\ UNCHANGED <<fileId, dFiles, dBody>>
     ELSE /\ fileId' = "id"
          /\ dFiles' = IF folderId = "id" THEN dFiles + 1 ELSE dFiles
          /\ dBody' = IF dFiles = 0 THEN <<>> ELSE dBody
          /\ dStack' = SetTop("init")
          /\ UNCHANGED <<dRet, dErr>>
  /\ UNCHANGED <<mvars, pvars, ivars, folderId, dFolders, dArg, dOps>>

\* `await this.updateFileContent([])`
CallUpdateFileContent ==
  /\ Running("findOrCreateFile", "init") /\ Len(dStack) < MaxDepth
  /\ dStack' = Append(SetTop("return"), Frame("updateFileContent"))
  /\ UNCHANGED <<mvars, pvars, ivars, folderId, fileId, dFolders, dFiles, dBody, dArg,
                 dRet, dCalls, dErr, dOps>>

\* `return this.fileId` after updateFileContent
ReturnFileId ==
  /\ Running("findOrCreateFile", "return")
  /\ dStack' = Pop
  /\ UNCHANGED <<mvars, pvars, ivars, folderId, fileId, dFolders, dFiles, dBody, dArg,
                 dRet, dCalls, dErr, dOps>>

UpdatePatch(outcome) ==
  /\ Running("updateFileContent", "request")
  /\ Count("patch")
  /\ IF outcome # "ok"
     THEN Raise(outcome) /\ UNCHANGED dBody
     ELSE /\ dBody' = JSONstringify(Arr(<<>>))
          /\ dStack' = Pop
          /\ UNCHANGED <<dRet, dErr>>
  /\ UNCHANGED <<mvars, pvars, ivars, folderId, fileId, dFolders, dFiles, dArg, dOps>>

\* getPrompts: the fetch of ?alt=media and what follows it
ContentGet(outcome) ==
  /\ Running("getPrompts", "request")
  /\ Count("get")
  /\ IF outcome \in {"http", "network"} THEN Raise(outcome)
     ELSE IF outcome = "notFound" THEN Deliver("value", Arr(<<>>))
     ELSE LET content == dBody
          IN IF content = <<>> THEN Deliver("value", Arr(<<>>))
             ELSE IF JSONparse(content) = SyntaxError THEN Raise("decode")
             ELSE Deliver("value", JSONparse(content))
  /\ UNCHANGED <<mvars, pvars, ivars, folderId, fileId, dFolders, dFiles, dBody, dArg, dOps>>

\* savePrompts: the PATCH and what follows it
ContentPatch(outcome) ==
  /\ Running("savePrompts", "request")
  /\ Count("patch")
  /\ IF outcome # "ok"
     THEN Raise(outcome) /\ UNCHANGED dBody
     ELSE dBody' = JSONstringify(dArg) /\ Deliver("true", Arr(<<>>))
  /\ UNCHANGED <<mvars, pvars, ivars, folderId, fileId, dFolders, dFiles, dArg, dOps>>

DriveNext ==
  \/ CallGetPrompts
  \/ \E prompts \in SaveArgs : CallSavePrompts(prompts)
  \/ \E outcome \in TokenOutcomes : GetAuthToken(outcome)
  \/ CallFindOrCreateFile
  \/ CallFindOrCreateFolder
  \/ \E outcome \in FetchOutcomes : FolderSearch(outcome)
  \/ \E outcome \in FetchOutcomes : FolderCreate(outcome)
  \/ \E outcome \in FetchOutcomes : FileSearch(outcome)
  \/ \E outcome \in FetchOutcomes : FileCreate(outcome)
  \/ CallUpdateFileContent
  \/ ReturnFileId
  \/ \E outcome \in FetchOutcomes : UpdatePatch(outcome)
  \/ \E outcome \in ContentOutcomes : ContentGet(outcome)
  \/ \E outcome \in FetchOutcomes : ContentPatch(outcome)

DriveSpec == DriveInit /\ [][DriveNext]_vars

\* ------------------------------------------------------------ the form of savePrompt
\* What is typed into a field: len characters with pad blanks around them.
MAX_PROMPT_LENGTH == 10000
MAX_NAME_LENGTH == 200
MaxPad == 1
Typed(pad, len) == [pad |-> pad, len |-> len]
NameInputs ==
  {Typed(pad, len) : pad \in 0..MaxPad, len \in {0, 1, MAX_NAME_LENGTH, MAX_NAME_LENGTH + 1}}
TextInputs ==
  {Typed(pad, len) : pad \in 0..MaxPad,
                     len \in {0, 1, MAX_PROMPT_LENGTH, MAX_PROMPT_LENGTH + 1}}
\* String.prototype.trim and .length
trim(x) == Typed(0, x.len)
Length(x) == x.pad + x.len

validatePromptOffByOne(name, text) ==
  IF Length(name) = 0 \/ Length(text) = 0 THEN "Please provide both name and prompt text"
  ELSE IF Length(name) >= MAX_NAME_LENGTH THEN "Name must be less than 200 characters"
  ELSE IF Length(text) >= MAX_PROMPT_LENGTH
  THEN "Prompt text must be less than 10000 characters"
  ELSE "null"

validatePrompt(name, text) ==
  IF Length(name) = 0 \/ Length(text) = 0 THEN "Please provide both name and prompt text"
  ELSE IF Length(name) > MAX_NAME_LENGTH THEN "Name must be less than 200 characters"
  ELSE IF Length(text) > MAX_PROMPT_LENGTH
  THEN "Prompt text must be less than 10000 characters"
  ELSE "null"

\* savePrompt from the click on: the fields are trimmed and validated, and a
\* validation error is shown and ends the handler
SavePrompt(nameInput, textInput) ==
  LET name == trim(nameInput)
      text == trim(textInput)
      validationError == validatePrompt(name, text)
  IN IF validationError # "null"
     THEN /\ ~closed /\ ops < MaxOps /\ ops' = ops + 1
          /\ toast' = validationError
          /\ UNCHANGED <<mvars, dvars, ivars, now, currentPrompts, driveAPI, cache, lastSync,
                         remote, authStatus, rendered, tasks, timers, nextTick,
                         closed, uncaught>>
     ELSE \E v \in NewContents : Create(v)

\* The popup after a startup that found the Local Cache and the remote
\* document equal, with or without a Drive client.
FormInit ==
  /\ mLocal = Arr(<<>>) /\ mRemote = Arr(<<>>) /\ mOut = Arr(<<>>)
  /\ mOut2 = Arr(<<>>) /\ mPhase = "form"
  /\ InsertAtRest
  /\ DriveAtRest
  /\ now = StartTime
  /\ cache \in {Arr(c) : c \in InitCaches}
  /\ currentPrompts = cache /\ rendered = cache /\ remote = cache
  /\ lastSync = IF cache.a = <<>> THEN 0 ELSE 1
  /\ driveAPI \in BOOLEAN
  /\ authStatus = "success" /\ toast = "none"
  /\ tasks = EmptyBag /\ timers = 0 /\ nextTick = 0
  /\ closed = FALSE /\ ops = 0 /\ uncaught = FALSE

FormNext ==
  \/ \E nameInput \in NameInputs, textInput \in TextInputs : SavePrompt(nameInput, textInput)
  \/ \E t \in InFlight : SaveAfterStore(t)
  \/ \E t \in InFlight : \E outcome \in GetOutcomes : GetRequest(t, outcome)
  \/ \E t \in InFlight : SaveAfterGet(t)
  \/ \E t \in InFlight : \E outcome \in PutOutcomes : PutRequest(t, outcome)
  \/ \E t \in InFlight : SaveAfterPut(t)

FormSpec == FormInit /\ [][FormNext]_vars

\* ------------------------------------------------------------ the Insert button and the shortcut
\* popup.js setPendingInsert and the service worker's onCommand and
\* onMessage listeners, around the storage key pendingInsert.
MaxInsertOps == 3
InsertCollections == {Arr(<<P(1, "a")>>), Arr(<<P(2, "b"), P(1, "a")>>)}
InsertOutcomes == {"torn", "noTab", "injected", "error"}
TabOutcomes == {"noTab", "injected", "error"}
Commands == {"insert-prompt", "other"}
Messages == {[action |-> "getStatus", text |-> ""]}
              \cup {[action |-> "setPendingInsert", text |-> c] : c \in Contents \cup {""}}

\* currentPrompts.find(x => x.id === id)
Find(s, id) == s[CHOOSE i \in DOMAIN s :
                   s[i].id = id /\ \A j \in DOMAIN s : s[j].id = id => i <= j]

\* The popup after a startup that found the Local Cache and the remote
\* document equal, the service worker running.
InsertInit ==
  /\ mLocal = Arr(<<>>) /\ mRemote = Arr(<<>>) /\ mOut = Arr(<<>>)
  /\ mOut2 = Arr(<<>>) /\ mPhase = "insert"
  /\ InsertAtRest
  /\ DriveAtRest
  /\ now = StartTime
  /\ cache \in InsertCollections
  /\ currentPrompts = cache /\ rendered = cache /\ remote = cache
  /\ lastSync = 1
  /\ driveAPI = TRUE
  /\ authStatus = "success" /\ toast = "none"
  /\ tasks = EmptyBag /\ timers = 1 /\ nextTick = now + SYNC_INTERVAL
  /\ closed = FALSE /\ ops = 0 /\ uncaught = FALSE

\* listClickHandler on an Insert button: setPendingInsert(prompt.text) up to
\* its first await. window.close() tears the popup down as Unload does.
ClickInsert(id) ==
  /\ ~closed /\ iOps < MaxInsertOps /\ iOps' = iOps + 1
  /\ insertTask.pc = "idle"
  /\ id \in IdsOf(rendered.a)
  /\ currentPrompts.t = "array" /\ id \in IdsOf(currentPrompts.a)
  /\ LET prompt == Find(currentPrompts.a, id)
     IN insertTask' = [pc |-> "query", text |-> prompt.v]
  /\ closed' = TRUE
  /\ timers' = 0 /\ nextTick' = 0
  /\ tasks' = EmptyBag
  /\ currentPrompts' = Arr(<<>>) /\ rendered' = Arr(<<>>) /\ driveAPI' = FALSE
  /\ authStatus' = "closed" /\ toast' = "none"
  /\ UNCHANGED <<mvars, dvars, now, cache, lastSync, remote, ops, uncaught,
                 pendingInsert, inserted, notification, command>>

\* setPendingInsert after window.close(): the closing document may never
\* run the continuation; if it does, the text goes to the active tab.
\* The storage key is not written on any path.
SetPendingInsertResume(outcome) ==
  /\ insertTask.pc = "query"
  /\ insertTask' = [insertTask EXCEPT !.pc = "idle"]
  /\ inserted' = IF outcome = "injected"
                 THEN Append(inserted, insertTask.text) ELSE inserted
  /\ toast' = IF outcome = "error" THEN "insertFailed" ELSE toast
  /\ UNCHANGED <<mvars, dvars, now, currentPrompts, driveAPI, cache, lastSync, remote,
                 authStatus, rendered, tasks, timers, nextTick, closed, ops, uncaught,
                 pendingInsert, notification, command, iOps>>

\* the user opens the popup again; startup as in InsertInit
OpenPopup ==
  /\ closed /\ insertTask.pc = "idle"
  /\ closed' = FALSE
  /\ currentPrompts' = cache /\ rendered' = cache /\ driveAPI' = TRUE
  /\ authStatus' = "success" /\ toast' = "none"
  /\ timers' = 1 /\ nextTick' = now + SYNC_INTERVAL
  /\ UNCHANGED <<mvars, dvars, ivars, now, cache, lastSync, remote, tasks, ops, uncaught>>

\* chrome.commands.onCommand, up to insertPromptIntoActiveTab
OnCommand(cmd) ==
  /\ iOps < MaxInsertOps /\ iOps' = iOps + 1
  /\ command.pc = "idle"
  /\ IF cmd # "insert-prompt"
     THEN UNCHANGED <<notification, command>>
     ELSE LET text == IF pendingInsert.set THEN pendingInsert.text ELSE ""
          IN IF text = ""
             THEN /\ notification' = "No prompt selected to insert."
                  /\ UNCHANGED command
             ELSE /\ command' = [pc |-> "insert", text |-> text]
                  /\ UNCHANGED notification
  /\ UNCHANGED <<mvars, pvars, dvars, pendingInsert, inserted, insertTask>>

InsertPromptIntoActiveTab(outcome) ==
  /\ command.pc = "insert"
  /\ command' = Idle
  /\ inserted' = IF outcome = "injected"
                 THEN Append(inserted, command.text) ELSE inserted
  /\ notification' = IF outcome = "error"
                     THEN "Failed to insert prompt into page." ELSE notification
  /\ UNCHANGED <<mvars, pvars, dvars, pendingInsert, insertTask, iOps>>

\* chrome.runtime.onMessage: the only writer of pendingInsert
OnMessage(request) ==
  /\ iOps < MaxInsertOps /\ iOps' = iOps + 1
  /\ pendingInsert' = IF request.action = "setPendingInsert"
                      THEN Pending(request.text) ELSE pendingInsert
  /\ UNCHANGED <<mvars, pvars, dvars, inserted, notification, insertTask, command>>

InsertNext ==
  \/ \E id \in 1..MaxId : ClickInsert(id)
  \/ \E outcome \in InsertOutcomes : SetPendingInsertResume(outcome)
  \/ OpenPopup
  \/ \E cmd \in Commands : OnCommand(cmd)
  \/ \E outcome \in TabOutcomes : InsertPromptIntoActiveTab(outcome)
  \/ \E request \in Messages : OnMessage(request)

InsertSpec == InsertInit /\ [][InsertNext]_vars

\* ------------------------------------------------------------ claims on mergePrompts
Merged == mPhase \in {"merged", "remerged"}
BothNonEmpty == mLocal.a # <<>> /\ mRemote.a # <<>>
StrictlyDescending(s) == \A i, j \in DOMAIN s : i < j => s[i].id > s[j].id
EntriesWithId(s, id) == {i \in DOMAIN s : s[i].id = id}

\* C1 (remote wins): after merging two non-empty collections, for every id
\* that both hold, the output's entry for that id is the remote entry (the
\* one the remote collection maps the id to), and it is the local entry only
\* when the two have the same content.
C1_RemoteWins ==
  (Merged /\ BothNonEmpty) =>
    \A id \in IdsOf(mLocal.a) \cap IdsOf(mRemote.a) :
      \A i \in EntriesWithId(mOut.a, id) :
        /\ mOut.a[i] = MapGet(mRemote.a, id)
        /\ (MapGet(mLocal.a, id) # MapGet(mRemote.a, id)
              => mOut.a[i] # MapGet(mLocal.a, id))

C1_Witness ==
  /\ Merged /\ BothNonEmpty
  /\ UniqueIds(mLocal.a) /\ UniqueIds(mRemote.a)
  /\ \E id \in IdsOf(mLocal.a) \cap IdsOf(mRemote.a) :
       /\ MapGet(mLocal.a, id) # MapGet(mRemote.a, id)
       /\ MapGet(mRemote.a, id) \in Range(mOut.a)

\* C2 (union by id): for collections (one prompt per id in each input), also
\* when one of them is empty, and for any two non-empty inputs, the output
\* holds exactly one entry for each id of either input and no other id.
C2_UnionById ==
  (Merged /\ (BothNonEmpty \/ (UniqueIds(mLocal.a) /\ UniqueIds(mRemote.a)))) =>
    /\ IdsOf(mOut.a) = IdsOf(mLocal.a) \cup IdsOf(mRemote.a)
    /\ UniqueIds(mOut.a)

C2_Witness ==
  /\ Merged /\ BothNonEmpty
  /\ IdsOf(mLocal.a) \ IdsOf(mRemote.a) # {}
  /\ IdsOf(mRemote.a) \ IdsOf(mLocal.a) # {}
  /\ IdsOf(mRemote.a) \cap IdsOf(mLocal.a) # {}
  /\ Len(mOut.a) = 3

\* C3 as stated (descending order for every pair of inputs, in any input
\* order, an empty input included): the output is strictly descending by id.
C3_AlwaysDescending == Merged => StrictlyDescending(mOut.a)

\* C3 as amended: the output is strictly descending by id when both inputs
\* are non-empty; when an input is empty the output is the other input in
\* its own order.
C3_DescendingWhenBothNonEmpty ==
  Merged =>
    /\ BothNonEmpty => StrictlyDescending(mOut.a)
    /\ mLocal.a = <<>> => mOut = mRemote
    /\ (mLocal.a # <<>> /\ mRemote.a = <<>>) => mOut = mLocal

C3_Witness ==
  /\ Merged /\ BothNonEmpty
  /\ ~StrictlyDescending(mLocal.a) /\ ~StrictlyDescending(mRemote.a)
  /\ Len(mOut.a) = 3 /\ StrictlyDescending(mOut.a)

\* C4 (identity on empty input): mergePrompts(X, []) is X and
\* mergePrompts([], X) is X, each in X's own order.
C4_IdentityOnEmpty ==
  Merged =>
    /\ mRemote.a = <<>> => mOut = mLocal
    /\ mLocal.a = <<>> => mOut = mRemote

C4_Witness ==
  /\ Merged /\ mRemote.a = <<>>
  /\ Len(mLocal.a) = 2 /\ mLocal.a[1].id < mLocal.a[2].id
  /\ mOut = mLocal

\* C5 (idempotence): for X with unique ids, mergePrompts(X, X) holds exactly
\* the entries of X in strictly descending id order, and merging that result
\* with itself returns it unchanged.
C5_Idempotent ==
  (mLocal = mRemote /\ UniqueIds(mLocal.a)) =>
    /\ Merged =>
         /\ Range(mOut.a) = Range(mLocal.a)
         /\ Len(mOut.a) = Len(mLocal.a)
         /\ (mLocal.a # <<>> => StrictlyDescending(mOut.a))
         /\ (StrictlyDescending(mLocal.a) => mOut = mLocal)
    /\ mPhase = "remerged" => mOut2 = mOut

C5_Witness ==
  /\ mPhase = "remerged" /\ mLocal = mRemote /\ UniqueIds(mLocal.a)
  /\ Len(mLocal.a) = 2 /\ mLocal.a[1].id < mLocal.a[2].id
  /\ mOut2 = mOut /\ mOut # mLocal

\* ------------------------------------------------------------ claims on the popup
IsColl(v) == v.t = "array"
Without(s, id) == SelectSeq(s, LAMBDA p : p.id # id)
Copies(pred(_)) ==
  BagCardinality([r \in {x \in InFlight : pred(x)} |-> CopiesIn(r, tasks)])

\* C6 (create with remote failure): a create from the in-memory collection C
\* makes the in-memory collection and the Local Cache [new prompt] followed
\* by C in the same step; no later step of that savePrompt changes either of
\* them or lets an exception escape; and when its remote write fails the
\* toast is the warning "saved locally, sync failed".
C6_CreateRemoteFailure ==
  [][ /\ \A v \in NewContents :
           (Create(v) /\ IsColl(currentPrompts)) =>
             /\ currentPrompts' = Arr(<<[id |-> now, v |-> v]>> \o currentPrompts.a)
             /\ cache' = currentPrompts'
             /\ uncaught' = uncaught
      /\ \A t \in InFlight :
           (t.kind = "save"
              /\ \/ SaveAfterStore(t) \/ SaveAfterGet(t) \/ SaveAfterPut(t)
                 \/ \E o \in GetOutcomes : GetRequest(t, o)
                 \/ \E o \in PutOutcomes : PutRequest(t, o)) =>
             /\ UNCHANGED <<currentPrompts, cache, uncaught>>
             /\ (t.pc = "putFail" => toast' = "savedLocallySyncFailed")
    ]_vars

C6_Witness ==
  /\ ~closed /\ ~uncaught /\ InFlight = {}
  /\ toast = "savedLocallySyncFailed"
  /\ IsColl(currentPrompts) /\ Len(currentPrompts.a) = 3
  /\ currentPrompts.a[1].v = "n"
  /\ cache = currentPrompts
  /\ IsColl(remote) /\ Len(remote.a) = 2 /\ currentPrompts.a[1] \notin Range(remote.a)

\* C7 (delete locally): a confirmed delete of id d leaves, in the same step,
\* no prompt with id d in the in-memory collection and writes that
\* collection, every other prompt in its previous order, to the Local Cache;
\* no later step of that delete handler, whether its remote delete succeeds
\* or fails, changes either of them.
C7_DeleteLocally ==
  [][ /\ \A d \in IdsOf(rendered.a) :
           (ClickDelete(d) /\ IsColl(currentPrompts)) =>
             /\ d \notin IdsOf(currentPrompts'.a)
             /\ currentPrompts' = Arr(Without(currentPrompts.a, d))
             /\ cache' = currentPrompts'
      /\ \A t \in InFlight :
           (t.kind = "del"
              /\ \/ DelAfterStore(t) \/ DelAfterGet(t) \/ DelAfterPut(t)
                 \/ \E o \in GetOutcomes : GetRequest(t, o)
                 \/ \E o \in PutOutcomes : PutRequest(t, o)) =>
             UNCHANGED <<currentPrompts, cache>>
    ]_vars

C7_Witness ==
  /\ ~closed /\ InFlight = {} /\ ops = 1
  /\ toast = "deletedLocallySyncFailed"
  /\ currentPrompts = Arr(<<P(1, "a")>>) /\ cache = currentPrompts
  /\ remote = Arr(<<P(2, "a"), P(1, "a")>>)

\* C8 (remote append and delete touch only the targeted prompt), for the
\* first operation of a session, which no other write can overlap: when the
\* remote write of addPrompt(p) succeeds the document becomes p followed by
\* what it held, and when the remote write of deletePrompt(d) succeeds it
\* becomes what it held without the prompts of id d.
C8_RemoteTouchesOnlyTarget ==
  [][ \A t \in InFlight :
        (PutRequest(t, "ok") /\ ops = 1 /\ IsColl(remote)) =>
          /\ t.kind = "save" => remote' = Arr(<<t.arg>> \o remote.a)
          /\ t.kind = "del" => remote' = Arr(Without(remote.a, t.arg.id))
    ]_vars

\* C9 (cold start with no cache): when initializeApp read an empty Local
\* Cache, its getPrompts returned a non-empty collection R and no other
\* handler ran meanwhile, the step that ends startup leaves the status
\* success and the in-memory collection and the Local Cache equal to R.
StartupEnds(t) ==
  /\ t.kind = "init"
  /\ InitAfterGet(t) \/ InitAfterSave(t)
  /\ \A r \in BagToSet(tasks') : r.kind # "init"

C9_ColdStart ==
  [][ \A t \in InFlight :
        (StartupEnds(t) /\ ops = 0
           /\ t.cached = Arr(<<>>) /\ IsColl(t.res) /\ t.res.a # <<>>) =>
          /\ authStatus' = "success"
          /\ currentPrompts' = t.res
          /\ cache' = t.res
    ]_vars

C9_Witness ==
  /\ ~closed /\ ops = 0 /\ timers = 1 /\ InFlight = {}
  /\ authStatus = "success"
  /\ currentPrompts = Arr(<<P(2, "a"), P(1, "a")>>)
  /\ cache = currentPrompts /\ remote = currentPrompts /\ rendered = currentPrompts
  /\ lastSync = StartTime

\* C10 (concurrent refresh collapse): overlapping sync triggers (explicit
\* refresh, periodic tick) collapse into one cycle, so at no time are two
\* refresh or tick cycles in flight between their remote fetch and the end
\* of their merge and cache write.
SyncCycle(r) == r.kind \in {"load", "tick"} /\ r.pc \in {"get", "got", "saving"}

C10_OneSyncCycleInFlight == Copies(SyncCycle) <= 1

\* the steps of a startup, refresh or periodic cycle after its getPrompts
SyncStep(t) ==
  \/ InitAfterGet(t) \/ InitAfterSave(t)
  \/ LoadAfterGet(t) \/ LoadAfterSave(t)
  \/ TickAfterGet(t) \/ TickAfterSave(t)
NonEmptyColl(v) == IsColl(v) /\ v.a # <<>>
FetchFailed(t) == t.out \in {"transport", "credential", "decode"}

\* C12 (decode failure keeps local state): when the getPrompts of a startup,
\* refresh or periodic cycle read a malformed body (no JSON, or JSON that is
\* no array), the step that handles its result leaves the in-memory
\* collection and the Local Cache as they were, whether they were empty
\* or not.
C12_DecodeFailureKeepsLocal ==
  [][ \A t \in InFlight :
        ((InitAfterGet(t) \/ LoadAfterGet(t) \/ TickAfterGet(t)) /\ t.out = "decode") =>
          UNCHANGED <<currentPrompts, cache>>
    ]_vars

\* C13 (hard error on startup without local data): when initializeApp read
\* an empty Local Cache, its getPrompts met a transport, credential or decode
\* failure and no other handler ran meanwhile, the step that ends startup
\* leaves the status 'error'.
C13_HardErrorWithoutLocalData ==
  [][ \A t \in InFlight :
        (StartupEnds(t) /\ ops = 0 /\ t.cached = Arr(<<>>)
           /\ (FetchFailed(t) \/ ~IsColl(t.res))) =>
          authStatus' = "error"
    ]_vars

\* C14 (remote failure is never fatal with local data): no step of a startup,
\* refresh or periodic cycle taken while the in-memory collection is
\* non-empty turns the status into 'error'.
C14_NeverFatalWithLocalData ==
  [][ \A t \in InFlight :
        (SyncStep(t) /\ NonEmptyColl(currentPrompts) /\ authStatus # "error") =>
          authStatus' # "error"
    ]_vars

\* C15 (no uncaught failure): whatever the remote store answers, no exception
\* escapes a top-level handler or a callback it registered.
C15_NoUncaughtFailure == ~uncaught

\* C20 (unique identity): in every reachable state the in-memory collection
\* and the Local Cache hold at most one prompt per id; in particular two
\* creates never receive the same id.
C20_UniqueIdentity ==
  /\ IsColl(currentPrompts) => UniqueIds(currentPrompts.a)
  /\ IsColl(cache) => UniqueIds(cache.a)

\* the step of a cycle that resumes from getPrompts, and the one after its
\* cache write
AfterGet(t) == InitAfterGet(t) \/ LoadAfterGet(t) \/ TickAfterGet(t)
AfterSave(t) == InitAfterSave(t) \/ LoadAfterSave(t) \/ TickAfterSave(t)

\* C21 (no redundant cache write): a startup, refresh or periodic cycle
\* changes the Local Cache (prompts or lastSync) only in the step that
\* compared the merged collection with the in-memory one and found them
\* different; when they are equal the step leaves the in-memory collection,
\* the cached prompts and lastSync as they were.
C21_NoRedundantCacheWrite ==
  [][ \A t \in InFlight :
        /\ AfterGet(t) =>
             LET merged == mergePrompts(currentPrompts, t.res)
             IN /\ (cache' # cache \/ lastSync' # lastSync) => merged # currentPrompts
                /\ merged = currentPrompts =>
                     UNCHANGED <<currentPrompts, cache, lastSync>>
        /\ AfterSave(t) => UNCHANGED <<currentPrompts, cache, lastSync>>
    ]_vars

C21_Witness ==
  /\ toast = "upToDate" /\ InFlight = {} /\ ops = 1
  /\ currentPrompts = Arr(<<P(2, "a"), P(1, "a")>>)
  /\ cache = currentPrompts /\ remote = currentPrompts
  /\ lastSync = 1 /\ now > lastSync

\* C22: on startup with a non-empty cached collection, the step of
\* initializeApp that has read the cache makes it the in-memory collection
\* and renders it, and no request to the remote store is issued while a
\* startup is still waiting for its cache read.
C22_LocalFirstOrdering ==
  [][ /\ \A t \in InFlight :
           (InitCacheLoaded(t) /\ NonEmptyColl(t.cached)) =>
              /\ currentPrompts' = t.cached
              /\ rendered' = t.cached
      /\ \A t \in InFlight :
           (\/ \E outcome \in GetOutcomes : GetRequest(t, outcome)
            \/ \E outcome \in PutOutcomes : PutRequest(t, outcome)) =>
              \A r \in InFlight : ~(r.kind = "init" /\ r.pc = "loadCache")
    ]_vars

C22_Witness ==
  \E t \in InFlight :
    /\ t.kind = "init" /\ t.pc = "get"
    /\ NonEmptyColl(t.cached)
    /\ currentPrompts = t.cached /\ rendered = t.cached
    /\ remote # t.cached

\* C23: the interval callback, once it has read lastSync, goes on to the
\* remote fetch exactly when more than SYNC_INTERVAL has elapsed since the
\* value it read; otherwise it ends with no request and no change of state.
C23_PeriodicGate ==
  [][ \A t \in InFlight :
        TickAfterLastSync(t) =>
          IF now - t.ls > SYNC_INTERVAL
          THEN \E r \in BagToSet(tasks') :
                 /\ r.kind = "tick" /\ r.pc = "get"
                 /\ tasks' = (tasks (-) SetToBag({t})) (+) SetToBag({r})
          ELSE /\ tasks' = tasks (-) SetToBag({t})
               /\ UNCHANGED <<currentPrompts, cache, lastSync, remote,
                              authStatus, toast, rendered>>
    ]_vars

C23_Witness ==
  /\ \E t \in InFlight :
       t.kind = "tick" /\ t.pc = "get" /\ now - t.ls > SYNC_INTERVAL
  /\ ops > 0

\* C24: at most one interval timer is ever active, none is active once the
\* popup is torn down, and the callback fires only from an active timer of
\* a popup that is still open.
C24_SyncStopsAtTeardown ==
  /\ [](timers <= 1 /\ (closed => timers = 0))
  /\ [][TickFire => (~closed /\ timers = 1)]_vars

C24_Witness ==
  /\ closed /\ timers = 0
  /\ now >= StartTime + SYNC_INTERVAL
  /\ ops > 0 /\ lastSync >= StartTime + SYNC_INTERVAL

\* C25: a sync whose fetch returns a prompt that the in-memory collection
\* no longer holds (deleted locally, not deleted remotely) puts that prompt
\* back into the in-memory collection and into the cache.
C25_DeletionResurfaces ==
  [][ \A t \in InFlight :
        (AfterGet(t) /\ IsColl(currentPrompts) /\ IsColl(t.res)) =>
          \A p \in Range(t.res.a) :
            p.id \notin IdsOf(currentPrompts.a) =>
              /\ p \in Range(currentPrompts'.a)
              /\ p \in Range(cache'.a)
    ]_vars

C25_Witness ==
  /\ toast = "deletedLocallySyncFailed" /\ ops = 2
  /\ \E t \in InFlight : t.kind = "load" /\ t.pc = "saving"
  /\ currentPrompts = Arr(<<P(2, "a"), P(1, "a")>>)
  /\ cache = currentPrompts /\ remote = currentPrompts

\* C29: the stored lastSync changes only in the step of a sync cycle whose
\* remote fetch succeeded; in particular a create or a delete, whether or
\* not its remote write succeeds later, leaves it unchanged.
C29_LastSyncOnlyOnSuccessfulFetch ==
  [][ lastSync' # lastSync =>
        \E t \in InFlight : AfterGet(t) /\ t.out = "ok" ]_vars

\* the prompts of the in-memory collection that a savePrompt created and
\* whose remote write has just failed
FailedCreates ==
  IF toast = "savedLocallySyncFailed" /\ IsColl(currentPrompts)
  THEN {p \in Range(currentPrompts.a) : p.v \in NewContents}
  ELSE {}

\* C31: when a refresh or a periodic cycle has fetched the remote document
\* successfully after a create whose remote write failed, the remote
\* document holds the created prompt once the cycle has handled the fetch.
C31_FailedWritesPropagated ==
  [][ \A t \in InFlight :
        ((LoadAfterGet(t) \/ TickAfterGet(t))
           /\ t.out = "ok" /\ IsColl(remote) /\ t.res = remote) =>
          \A p \in FailedCreates :
            IsColl(remote') /\ p \in Range(remote'.a)
    ]_vars

\* the popup is open, initializeApp has got its cache read back, and no
\* handler is waiting at `await saveToStorage(...)`
CacheAtRest ==
  /\ ~closed
  /\ \A t \in InFlight :
       /\ ~(t.kind = "init" /\ t.pc = "loadCache")
       /\ t.pc # "saving"

\* C32: whenever the startup cache load has completed and no handler is
\* between a change of the in-memory collection and the end of its cache
\* write, the prompts in the Local Cache equal the in-memory collection.
C32_CacheEqualsMemoryAtRest == CacheAtRest => cache = currentPrompts

\* C33: when a delete whose remote write succeeded ends and leaves no
\* handler in flight, the deleted prompt is absent from the in-memory
\* collection and from the Local Cache, whatever refresh or periodic cycle
\* ran while the delete was in flight.
C33_SuccessfulDeleteStable ==
  [][ \A t \in InFlight :
        (DelAfterPut(t) /\ t.pc = "putOk" /\ tasks' = EmptyBag) =>
          /\ t.arg.id \notin IdsOf(currentPrompts'.a)
          /\ t.arg.id \notin IdsOf(cache'.a)
    ]_vars

\* C34: two creates overlap when the one started later (its id, the clock
\* at its start, is the greater) has its remote write done while the earlier
\* one is still before its own. When the earlier one's write succeeds too,
\* the remote document holds the prompts of both.
C34_OverlappingCreatesKept ==
  [][ \A t, r \in InFlight :
        (/\ PutRequest(t, "ok")
         /\ t.kind = "save" /\ r.kind = "save" /\ r.pc = "putOk"
         /\ r.arg.id > t.arg.id) =>
          /\ t.arg \in Range(remote'.a)
          /\ r.arg \in Range(remote'.a)
    ]_vars

\* C35: with a well-formed remote document and no delete, no step takes a
\* prompt out of the Local Cache.
C35_CacheNeverLosesPrompt ==
  [][ \A p \in Range(cache.a) : p \in Range(cache'.a) ]_vars

\* what a cycle may leave as the in-memory collection or as the cache
SyncResults(res) ==
  {currentPrompts, cache, res, mergePrompts(currentPrompts, res)}

\* C36: when a refresh and a periodic cycle that passed the gate are both
\* about to handle the same fetch result, in the same state, each leaves the
\* in-memory collection and the prompts of the Local Cache as the other
\* would.
C36_PeriodicRefinesRefresh ==
  \A t, r \in InFlight :
    (/\ ~closed
     /\ t.kind = "load" /\ t.pc = "got"
     /\ r.kind = "tick" /\ r.pc = "got"
     /\ t.res = r.res) =>
      \A c, k \in SyncResults(t.res) :
        (ENABLED (LoadAfterGet(t) /\ currentPrompts' = c /\ cache' = k))
          <=> (ENABLED (TickAfterGet(r) /\ currentPrompts' = c /\ cache' = k))

\* ------------------------------------------------------------ claims on the Drive client
\* a text that is no JSON, or JSON that is no array
Malformed(text) == text # <<>> /\ JSONparse(text).t # "array"

\* C11 (decode error is raised): when the content request of getPrompts
\* succeeds and the body is not valid JSON or is JSON that is not an array,
\* getPrompts throws to its caller, and what it throws is a decode error.
C11_DecodeErrorRaised ==
  [][ (ContentGet("ok") /\ Malformed(dBody)) =>
        (dRet'.kind = "throw" /\ dRet'.err = "decode")
    ]_vars

RequestKinds == {"folderSearch", "folderCreate", "fileSearch", "fileCreate", "get", "patch"}
Requests(calls) ==
  calls.folderSearch + calls.folderCreate + calls.fileSearch + calls.fileCreate
    + calls.get + calls.patch

\* C17 (bounded retry): a call of getPrompts or savePrompts that ended on a
\* transport-level or server-level failure had attempted a request 3 times.
C17_BoundedRetry ==
  (dStack = <<>> /\ dErr \in {"http", "network"}) =>
    \E k \in RequestKinds : dCalls[k] >= 3

\* C18 (credential failure propagates): when the credential provider fails
\* at the start of a getPrompts or savePrompts call, the call has issued and
\* issues no remote request, asks for no second token, and throws an
\* authentication error to its caller.
C18_CredentialFailurePropagates ==
  [][ (GetAuthToken("fail") /\ dCalls.token = 0) =>
        /\ dStack' = <<>>
        /\ Requests(dCalls') = 0 /\ dCalls'.token = 1
        /\ dRet'.kind = "throw" /\ dRet'.err = "auth"
    ]_vars

\* C26: once this.folderId holds the container's identifier, no operation
\* of the client issues a container search or a container create again.
C26_ContainerIdCached ==
  [][ (\E outcome \in FetchOutcomes :
          FolderSearch(outcome) \/ FolderCreate(outcome))
        => folderId # "id" ]_vars

\* C27: a container search answered with an error response does not lead
\* to a create-container request, and the store never holds more than one
\* container made or found by the client.
C27_ContainerCreatedOnlyOnNoMatch ==
  /\ [](dFolders <= 1)
  /\ [][ FolderSearch("http") => dStack'[Len(dStack')].pc # "create" ]_vars

\* C28: one call of the client issues at most one create-document request,
\* whatever the searches issued after the creation return.
C28_DocumentCreatedOnce == dCalls.fileCreate <= 1

\* ------------------------------------------------------------ claims on the form
ValidationMessages ==
  {"Please provide both name and prompt text", "Name must be less than 200 characters",
   "Prompt text must be less than 10000 characters"}
\* the claim's own reading of an invalid form: lengths are those left by trim
Invalid(nameInput, textInput) ==
  \/ nameInput.len = 0 \/ textInput.len = 0
  \/ nameInput.len > 200 \/ textInput.len > 10000

\* C19 (validation rejects before any write): a create whose trimmed name or
\* text is empty, whose name is longer than 200 or whose text is longer than
\* 10,000 characters shows a reason message and leaves the in-memory
\* collection, the Local Cache with lastSync, and the remote document
\* unchanged, and starts no handler step that could write them; every other
\* create, a name of exactly 200 and a text of exactly 10,000 characters
\* included, puts its prompt at the front of the collection and the cache.
C19_ValidationRejectsBeforeWrite ==
  [][ \A nameInput \in NameInputs, textInput \in TextInputs :
        SavePrompt(nameInput, textInput) =>
          IF Invalid(nameInput, textInput)
          THEN /\ toast' \in ValidationMessages
               /\ UNCHANGED <<currentPrompts, cache, lastSync, remote, tasks>>
          ELSE /\ Len(currentPrompts'.a) = Len(currentPrompts.a) + 1
               /\ Tail(currentPrompts'.a) = currentPrompts.a
               /\ cache' = currentPrompts'
    ]_vars

C19_Witness ==
  /\ toast = "Name must be less than 200 characters"
  /\ ops = 2 /\ InFlight = {}
  /\ Len(currentPrompts.a) = 3 /\ currentPrompts.a[1].v = "n"
  /\ cache = currentPrompts /\ remote = currentPrompts

\* ------------------------------------------------------------ claims on the Insert button
\* C30: when setPendingInsert has run for a click on Insert, the storage
\* key pendingInsert holds the text of the clicked prompt.
C30_InsertPreparesShortcut ==
  [][ \A outcome \in InsertOutcomes :
        SetPendingInsertResume(outcome) =>
          pendingInsert' = Pending(insertTask.text) ]_vars

====
